---- MODULE Spec2Model ----
(***************************************************************************)
(* tcprofiles: a section-tagged key=value template is parsed               *)
(* (parseTemplate), a list of profiles is selected on the command line     *)
(* (parseInput) and merged into one flat configuration (fillConfig).       *)
(*                                                                         *)
(* Every program string is a sequence of one-character strings, so that    *)
(* the regular expressions, TrimSpace, ReadString and the "%s=%s\n"        *)
(* formatting are modelled by what they do to the characters.              *)
(*                                                                         *)
(* Three specifications share the variables:                               *)
(*   Spec       the command line program main, run after run;              *)
(*   SpecParse  the read loop of parseTemplate, one line per step;         *)
(*   SpecFill   fillConfig, one applied profile per step.                  *)
(***************************************************************************)
EXTENDS Integers, Sequences, FiniteSets, TLC

VARIABLES
    file,       \* the template file: [exists, text]
    args,       \* os.Args[1:] of the current run
    pc,         \* position of main: idle, parseInput, parseTemplate, fillConfig, exited
    selected,   \* main's / fillConfig's selected profiles
    template,   \* main's / fillConfig's parsed template ([]sectionLine)
    config,     \* the strings.Builder fillConfig writes
    stdout,     \* the writes made to os.Stdout in the current run
    stderr,     \* the messages logged to os.Stderr in the current run (by kind)
    exitCode,   \* the exit status once pc = "exited"
    text,       \* SpecParse: the text parseTemplate reads
    pst,        \* SpecParse: the locals of parseTemplate's read loop
    fst         \* SpecFill: the locals of fillConfig

vars == <<file, args, pc, selected, template, config, stdout, stderr, exitCode, text, pst, fst>>

\* Bounds of the model.
MaxSel == 3
MaxLines == 3
MaxTpl == 3

(***************************************************************************)
(* Strings of the program.                                                 *)
(***************************************************************************)
defaultProfileName == <<"d", "e", "f", "a", "u", "l", "t">>
batProfile == <<"b", "a", "t">>
acProfile == <<"a", "c">>
cmdTemplate == <<"t", "e", "m", "p", "l", "a", "t", "e">>
cmdUse == <<"u", "s", "e">>
cmdBogus == <<"r", "u", "n">>
flagH == <<"-", "h">>
flagHelp == <<"-", "-", "h", "e", "l", "p">>
flagUnknown == <<"-", "x">>

\* The const template, abbreviated to three of its comment lines
\* ("# [default]", "# TLP_ENABLE=0", "#"), each newline-terminated.
templateText == <<"#", " ", "[", "p", "]", "\n", "#", " ", "k", "=", "1", "\n", "#", "\n">>

\* "# Generated by tcprofiles command\n\n", abbreviated.
GeneratedHeader == <<"#", "\n", "\n">>

\* \w of Go's regexp (ASCII letters, digits, underscore), on the alphabet used.
WordChars == {"a", "b", "c", "d", "e", "f", "j", "k", "l", "p", "q", "t", "u", "v", "w",
              "1", "2", "3", "4", "5", "6", "7", "8", "9", "_"}
\* unicode.IsSpace, on the alphabet used.
SpaceChars == {" ", "\t", "\n", "\r"}

IsWord(c) == c \in WordChars
IsSpace(c) == c \in SpaceChars

(***************************************************************************)
(* strings.TrimSpace and bufio.Reader.ReadString('\n').                    *)
(***************************************************************************)
RECURSIVE TrimLeft(_)
TrimLeft(s) == IF Len(s) > 0 /\ IsSpace(s[1]) THEN TrimLeft(Tail(s)) ELSE s

RECURSIVE TrimRight(_)
TrimRight(s) ==
    IF Len(s) > 0 /\ IsSpace(s[Len(s)]) THEN TrimRight(SubSeq(s, 1, Len(s) - 1)) ELSE s

TrimSpace(s) == TrimRight(TrimLeft(s))

\* Index of the first "\n" of s, 0 when there is none.
NewlinePos(s) ==
    LET at == {i \in 1..Len(s) : s[i] = "\n"}
    IN IF at = {} THEN 0 ELSE CHOOSE i \in at : \A j \in at : i <= j

\* The line up to and including the delimiter; at end of input what is
\* left, with io.EOF.
ReadString(s) ==
    LET n == NewlinePos(s)
    IN IF n = 0
       THEN [line |-> s, rest |-> <<>>, eof |-> TRUE]
       ELSE [line |-> SubSeq(s, 1, n), rest |-> SubSeq(s, n + 1, Len(s)), eof |-> FALSE]

(***************************************************************************)
(* The three regular expressions of main.go.                               *)
(***************************************************************************)
\* A pattern not anchored at the start of the line: \[[\w\d]+\]$
sectionRegexMatchLoose(line) ==
    /\ Len(line) >= 3
    /\ line[Len(line)] = "]"
    /\ \E i \in 1..(Len(line) - 2) :
          /\ line[i] = "["
          /\ \A j \in (i + 1)..(Len(line) - 1) : IsWord(line[j])

\* ^\[.*\]$
sectionRegexMatch(line) == Len(line) >= 2 /\ line[1] = "[" /\ line[Len(line)] = "]"

\* ^[\w\d]+$
validSectionNameMatch(p) == Len(p) >= 1 /\ \A i \in 1..Len(p) : IsWord(p[i])

\* ^([\w]+?)=(.+)$ : FindStringSubmatch, <<>> when the line does not match.
keyValSubmatch(line) ==
    LET eqs == {i \in 1..Len(line) : line[i] = "="}
        e == IF eqs = {} THEN 0 ELSE CHOOSE i \in eqs : \A j \in eqs : i <= j
    IN IF e >= 2 /\ e < Len(line) /\ \A i \in 1..(e - 1) : IsWord(line[i])
       THEN <<line, SubSeq(line, 1, e - 1), SubSeq(line, e + 1, Len(line))>>
       ELSE <<>>

(***************************************************************************)
(* parseTemplate: the read loop, one iteration per ParseStep.              *)
(***************************************************************************)
ParseInit(t) ==
    [rest |-> t, lineNum |-> 0, curProfile |-> defaultProfileName, lines |-> <<>>,
     done |-> FALSE, err |-> "none", errLine |-> 0]

\* return nil, fmt.Errorf(...): no records, the error carries lineNum.
ParseFail(st, kind) ==
    [st EXCEPT !.lines = <<>>, !.done = TRUE, !.err = kind, !.errLine = st.lineNum]

\* if errors.Is(err, io.EOF) { break }
AfterLine(st, eof) == IF eof THEN [st EXCEPT !.done = TRUE] ELSE st

\* The variant that logs the malformed line and goes on to the next one.
MalformedLineIgnored(st, line, eof) == AfterLine(st, eof)

MalformedLine(st, line, eof) == ParseFail(st, "line")

MalformedSection(st, p) == ParseFail(st, "section")

ProcessLine(st, rd) ==
    LET st1 == [st EXCEPT !.lineNum = @ + 1, !.rest = rd.rest]
        line == TrimSpace(rd.line)
    IN IF Len(line) = 0 \/ line[1] = "#"
       THEN AfterLine(st1, rd.eof)
       ELSE IF sectionRegexMatch(line)
       THEN LET p == SubSeq(line, 2, Len(line) - 1)
            IN IF ~validSectionNameMatch(p)
               THEN MalformedSection(st1, p)
               ELSE AfterLine([st1 EXCEPT !.curProfile = p], rd.eof)
       ELSE LET kvMatches == keyValSubmatch(line)
            IN IF Len(kvMatches) < 3
               THEN MalformedLine(st1, line, rd.eof)
               ELSE AfterLine([st1 EXCEPT !.lines =
                        Append(@, [profile |-> st1.curProfile,
                                   setting |-> [key |-> kvMatches[2],
                                                value |-> kvMatches[3]]])], rd.eof)

\* A read loop that stops at io.EOF before looking at what was read.
ParseStepEofFirst(st) ==
    LET rd == ReadString(st.rest)
    IN IF rd.eof
       THEN [st EXCEPT !.lineNum = @ + 1, !.rest = <<>>, !.done = TRUE]
       ELSE ProcessLine(st, rd)

ParseStep(st) == ProcessLine(st, ReadString(st.rest))

RECURSIVE ParseLoop(_)
ParseLoop(st) == IF st.done THEN st ELSE ParseLoop(ParseStep(st))

\* parseTemplate on the template file f: (lines, err).
parseTemplate(f) ==
    IF ~f.exists
    THEN [lines |-> <<>>, err |-> "notexist", errLine |-> 0]
    ELSE LET st == ParseLoop(ParseInit(f.text))
         IN [lines |-> st.lines, err |-> st.err, errLine |-> st.errLine]

(***************************************************************************)
(* parseInput.                                                             *)
(***************************************************************************)
\* A search from the front, returning the first index of v.
RECURSIVE IndexFrom(_, _, _)
IndexFrom(s, v, i) ==
    IF i >= Len(s) THEN -1 ELSE IF s[i + 1] = v THEN i ELSE IndexFrom(s, v, i + 1)

firstIndex(s, v) == IndexFrom(s, v, 0)

\* for i := len(s) - 1; i != 0; i-- : 0-based, index 0 is never compared.
RECURSIVE LastIndexFrom(_, _, _)
LastIndexFrom(s, v, i) ==
    IF i = 0 THEN -1 ELSE IF s[i + 1] = v THEN i ELSE LastIndexFrom(s, v, i - 1)

lastIndex(s, v) == LastIndexFrom(s, v, Len(s) - 1)

\* flag.Parse on the default (ExitOnError) flag set with -h and -help
\* defined: flags are read up to the first non-flag argument.
flagParse(inputs) ==
    IF Len(inputs) = 0 \/ inputs[1][1] # "-" THEN "none"
    ELSE IF inputs[1] \in {flagH, flagHelp} THEN "help"
    ELSE "badflag"

\* parseInput, by outcome: the error returned, or the command that ends the
\* process inside parseInput ("template", "badflag"), or the profiles.
parseInput(inputs) ==
    IF Len(inputs) = 0 THEN [kind |-> "noargs", profiles |-> <<>>]
    ELSE IF flagParse(inputs) = "badflag" THEN [kind |-> "badflag", profiles |-> <<>>]
    ELSE IF flagParse(inputs) = "help" THEN [kind |-> "noargs", profiles |-> <<>>]
    ELSE IF inputs[1] = cmdTemplate THEN [kind |-> "template", profiles |-> <<>>]
    ELSE IF inputs[1] # cmdUse THEN [kind |-> "unknown", profiles |-> <<>>]
    ELSE LET profiles == Tail(inputs)
         IN IF Len(profiles) = 0 THEN [kind |-> "noprofiles", profiles |-> <<>>]
            ELSE IF Len(profiles) > 0 /\ lastIndex(profiles, defaultProfileName) > 0
            THEN [kind |-> "default", profiles |-> <<>>]
            ELSE [kind |-> "ok", profiles |-> profiles]

(***************************************************************************)
(* createTemplateFile.                                                     *)
(***************************************************************************)
\* An open without O_EXCL that truncates and rewrites the file.
createTemplateFileOverwrite(f) ==
    [file |-> [exists |-> TRUE, text |-> templateText], exit |-> 0]

\* os.OpenFile(O_WRONLY|O_CREATE|O_EXCL): fails when the file exists.
createTemplateFile(f) ==
    IF f.exists
    THEN [file |-> f, exit |-> 1]
    ELSE [file |-> [exists |-> TRUE, text |-> templateText], exit |-> 0]

(***************************************************************************)
(* fillConfig.                                                             *)
(***************************************************************************)
\* Dropping the first selection whatever it is.
NormalizeAlways(s) == Tail(s)

\* if selected[0] == defaultProfileName { selected = selected[1:] }
Normalize(s) == IF s[1] = defaultProfileName THEN Tail(s) ELSE s

\* The index the scan goes on from when the removal is not compensated.
NextIndexNoBacktrack(i) == i + 1

\* i-- after the removal, then the loop's i++.
NextIndexAfterRemove(i) == (i - 1) + 1

\* The inner loop over templateCache for one profile, from 0-based index i.
RECURSIVE Scan(_, _, _, _, _)
Scan(cache, i, settings, idx, profile) ==
    IF i >= Len(cache)
    THEN [templateCache |-> cache, settings |-> settings, settingIdx |-> idx]
    ELSE IF cache[i + 1].profile # profile
    THEN Scan(cache, i + 1, settings, idx, profile)
    ELSE LET key == cache[i + 1].setting.key
             s2 == Append(settings, cache[i + 1].setting)
             idx2 == [k \in (DOMAIN idx) \cup {key} |->
                        IF k = key THEN Len(s2) - 1 ELSE idx[k]]
             c2 == SubSeq(cache, 1, i) \o SubSeq(cache, i + 2, Len(cache))
         IN Scan(c2, NextIndexAfterRemove(i), s2, idx2, profile)

\* fmt.Fprintf(config, "%s=%s\n", key, value)
FormatSetting(s) == s.key \o <<"=">> \o s.value \o <<"\n">>

RECURSIVE EmitFrom(_, _, _, _)
EmitFrom(settings, idx, i, keepAll) ==
    IF i >= Len(settings) THEN <<>>
    ELSE (IF keepAll \/ idx[settings[i + 1].key] = i
          THEN FormatSetting(settings[i + 1]) ELSE <<>>)
         \o EmitFrom(settings, idx, i + 1, keepAll)

\* An output loop without the settingIdx test.
EmitSettingsAll(settings, idx) == EmitFrom(settings, idx, 0, TRUE)

\* for idx, setting := range settings { if settingIdx[setting.key] == idx {...} }
EmitSettings(settings, idx) == EmitFrom(settings, idx, 0, FALSE)

FillIdle ==
    [phase |-> "idle", profiles |-> <<>>, templateCache |-> <<>>, settings |-> <<>>,
     settingIdx |-> <<>>]

\* Up to the outer loop: the clone, the empty settings and index, and the
\* application order append([]string{defaultProfileName}, selected...).
FillStart(tpl, sel) ==
    [phase |-> "loop", profiles |-> <<defaultProfileName>> \o Normalize(sel),
     templateCache |-> tpl, settings |-> <<>>, settingIdx |-> <<>>]

\* One iteration of the outer loop.
FillApply(st) ==
    LET r == Scan(st.templateCache, 0, st.settings, st.settingIdx, Head(st.profiles))
    IN [st EXCEPT !.profiles = Tail(@), !.templateCache = r.templateCache,
                  !.settings = r.settings, !.settingIdx = r.settingIdx]

RECURSIVE FillLoop(_)
FillLoop(st) == IF st.profiles = <<>> THEN st ELSE FillLoop(FillApply(st))

\* The text fillConfig leaves in config.
fillConfig(tpl, sel) ==
    LET st == FillLoop(FillStart(tpl, sel))
    IN GeneratedHeader \o EmitSettings(st.settings, st.settingIdx)

(***************************************************************************)
(* The inputs of the model.                                                *)
(***************************************************************************)
ProfileNames == {defaultProfileName, batProfile, acProfile}

SeqsUpTo(S, n) == UNION {[1..m -> S] : m \in 1..n}

\* The profile lists a `use` command line can carry.
Selections == SeqsUpTo(ProfileNames, MaxSel)

\* The command lines.
ArgLists ==
    {<<>>, <<flagH>>, <<flagHelp>>, <<flagUnknown>>, <<cmdTemplate>>, <<cmdBogus>>, <<cmdUse>>}
    \cup {<<cmdUse>> \o s : s \in Selections}

\* A template with a default setting and two profiles, and a malformed one.
GoodText ==
    <<"k", "=", "1", "\n", "[", "b", "a", "t", "]", "\n", "k", "=", "2", "\n",
      "[", "a", "c", "]", "\n", "j", "=", "3">>
BadText == <<"k", "=", "1", "\n", "[", "]", "\n", "j", "=", "2", "\n">>

Files ==
    {[exists |-> FALSE, text |-> <<>>]}
    \cup {[exists |-> TRUE, text |-> t] : t \in {templateText, GoodText, BadText, <<>>}}

\* The lines the texts of SpecParse are made of: blank, comment, section
\* headers (valid and not), settings (valid and not).
TemplateLines ==
    { <<>>,
      <<" ", "#", "k", "=", "v">>,
      <<"[", "p", "]">>,
      <<"[", "q", "]">>,
      <<"[", "]">>,
      <<"k", "=", "[", "p", "]">>,
      <<"k", "=", "v">>,
      <<" ", "j", "=", "v", "=", "w", " ">>,
      <<"k", "=">>,
      <<"[", "p">> }

RECURSIVE JoinLines(_)
JoinLines(ls) ==
    IF Len(ls) = 0 THEN <<>>
    ELSE IF Len(ls) = 1 THEN ls[1]
    ELSE ls[1] \o <<"\n">> \o JoinLines(Tail(ls))

\* Up to MaxLines lines, the last one with or without its terminator.
Texts ==
    {<<>>} \cup {JoinLines(ls) \o term :
                    ls \in SeqsUpTo(TemplateLines, MaxLines), term \in {<<>>, <<"\n">>}}

Keys == {<<"k">>, <<"j">>}
Digits == <<"1", "2", "3", "4", "5", "6", "7", "8", "9">>

\* Parsed templates of up to MaxTpl records; the record at position i has
\* the value Digits[i], so every record is told from the others.
Templates ==
    {<<>>} \cup
    {[i \in 1..Len(f) |-> [profile |-> f[i][1],
                           setting |-> [key |-> f[i][2], value |-> <<Digits[i]>>]]] :
        f \in SeqsUpTo(ProfileNames \X Keys, MaxTpl)}

\* The selections parseInput returns for a `use` command line.
AcceptedSelections == {s \in Selections : parseInput(<<cmdUse>> \o s).kind = "ok"}

(***************************************************************************)
(* Spec: the program main, one run after the other.                        *)
(***************************************************************************)
Init ==
    /\ file \in Files
    /\ args = <<>>
    /\ pc = "idle"
    /\ selected = <<>>
    /\ template = <<>>
    /\ config = <<>>
    /\ stdout = <<>>
    /\ stderr = <<>>
    /\ exitCode = 0
    /\ text = <<>>
    /\ pst = ParseInit(<<>>)
    /\ fst = FillIdle

\* The process is started with some command line.
Launch ==
    /\ pc \in {"idle", "exited"}
    /\ args' \in ArgLists
    /\ pc' = "parseInput"
    /\ selected' = <<>>
    /\ template' = <<>>
    /\ config' = <<>>
    /\ stdout' = <<>>
    /\ stderr' = <<>>
    /\ exitCode' = 0
    /\ UNCHANGED <<file, text, pst, fst>>

\* main, lines 48-62: parseInput returned an error.
MainUsage ==
    /\ pc = "parseInput"
    /\ parseInput(args).kind \in {"noargs", "unknown", "noprofiles", "default"}
    /\ stderr' =
         (IF parseInput(args).kind # "noargs" THEN <<"error">>
          ELSE IF parseTemplate(file).err = "notexist" THEN <<"template does not exist">>
          ELSE IF parseTemplate(file).err = "none" THEN <<"profiles found">>
          ELSE <<>>) \o <<"usage">>
    /\ exitCode' = 1
    /\ pc' = "exited"
    /\ UNCHANGED <<file, args, selected, template, config, stdout, text, pst, fst>>

\* flag.Parse meets a flag that is not defined and exits with status 2.
MainBadFlag ==
    /\ pc = "parseInput"
    /\ parseInput(args).kind = "badflag"
    /\ stderr' = <<"flag provided but not defined">>
    /\ exitCode' = 2
    /\ pc' = "exited"
    /\ UNCHANGED <<file, args, selected, template, config, stdout, text, pst, fst>>

\* parseInput, lines 227-230: createTemplateFile, then os.Exit(0).
MainCreateTemplate ==
    /\ pc = "parseInput"
    /\ parseInput(args).kind = "template"
    /\ file' = createTemplateFile(file).file
    /\ exitCode' = createTemplateFile(file).exit
    /\ stderr' = IF createTemplateFile(file).exit = 0 THEN <<>> ELSE <<"error creating template">>
    /\ pc' = "exited"
    /\ UNCHANGED <<args, selected, template, config, stdout, text, pst, fst>>

\* main, line 63: parseInput returned the profiles.
MainSelected ==
    /\ pc = "parseInput"
    /\ parseInput(args).kind = "ok"
    /\ selected' = parseInput(args).profiles
    /\ stderr' = <<"profiles selected">>
    /\ pc' = "parseTemplate"
    /\ UNCHANGED <<file, args, template, config, stdout, exitCode, text, pst, fst>>

\* main, lines 67-71.
MainTemplateMissing ==
    /\ pc = "parseTemplate"
    /\ parseTemplate(file).err = "notexist"
    /\ stderr' = stderr \o <<"template file does not exist", "usage">>
    /\ exitCode' = 1
    /\ pc' = "exited"
    /\ UNCHANGED <<file, args, selected, template, config, stdout, text, pst, fst>>

\* The template error is logged and the run goes on with no records.
MainTemplateErrorGoesOn ==
    /\ pc = "parseTemplate"
    /\ parseTemplate(file).err \in {"section", "line"}
    /\ stderr' = stderr \o <<"template error">>
    /\ template' = parseTemplate(file).lines
    /\ pc' = "fillConfig"
    /\ UNCHANGED <<file, args, selected, config, stdout, exitCode, text, pst, fst>>

\* main, lines 72-73.
MainTemplateError ==
    /\ pc = "parseTemplate"
    /\ parseTemplate(file).err \in {"section", "line"}
    /\ stderr' = stderr \o <<"template error">>
    /\ exitCode' = 1
    /\ pc' = "exited"
    /\ UNCHANGED <<file, args, selected, template, config, stdout, text, pst, fst>>

\* main, lines 65, 75.
MainTemplateOk ==
    /\ pc = "parseTemplate"
    /\ parseTemplate(file).err = "none"
    /\ template' = parseTemplate(file).lines
    /\ stderr' = stderr \o <<"profiles found">>
    /\ pc' = "fillConfig"
    /\ UNCHANGED <<file, args, selected, config, stdout, exitCode, text, pst, fst>>

\* main, lines 77-83: fillConfig, then the one write to stdout.
MainPrint ==
    /\ pc = "fillConfig"
    /\ config' = fillConfig(template, selected)
    /\ stderr' = stderr \o <<"output">>
    /\ stdout' = Append(stdout, fillConfig(template, selected) \o <<"\n">>)
    /\ exitCode' = 0
    /\ pc' = "exited"
    /\ UNCHANGED <<file, args, selected, template, text, pst, fst>>

Next ==
    \/ Launch
    \/ MainUsage
    \/ MainBadFlag
    \/ MainCreateTemplate
    \/ MainSelected
    \/ MainTemplateMissing
    \/ MainTemplateError
    \/ MainTemplateOk
    \/ MainPrint

Spec == Init /\ [][Next]_vars

(***************************************************************************)
(* SpecParse: parseTemplate's read loop on a text.                         *)
(***************************************************************************)
InitParse ==
    /\ text \in Texts
    /\ pst = ParseInit(text)
    /\ file = [exists |-> TRUE, text |-> text]
    /\ args = <<>>
    /\ pc = "parseTemplate"
    /\ selected = <<>>
    /\ template = <<>>
    /\ config = <<>>
    /\ stdout = <<>>
    /\ stderr = <<>>
    /\ exitCode = 0
    /\ fst = FillIdle

\* One iteration of the for loop, lines 162-200.
ParseIter ==
    /\ ~pst.done
    /\ pst' = ParseStep(pst)
    /\ UNCHANGED <<file, args, pc, selected, template, config, stdout, stderr, exitCode,
                   text, fst>>

NextParse == ParseIter

SpecParse == InitParse /\ [][NextParse]_vars

(***************************************************************************)
(* SpecFill: fillConfig on a parsed template and an accepted selection.    *)
(***************************************************************************)
InitFill ==
    /\ template \in Templates
    /\ selected \in AcceptedSelections
    /\ fst = FillIdle
    /\ config = <<>>
    /\ file = [exists |-> FALSE, text |-> <<>>]
    /\ args = <<cmdUse>> \o selected
    /\ pc = "fillConfig"
    /\ stdout = <<>>
    /\ stderr = <<>>
    /\ exitCode = 0
    /\ text = <<>>
    /\ pst = ParseInit(<<>>)

\* Lines 270-280: the header, the normalised selection, the clone.
FillBegin ==
    /\ fst.phase = "idle"
    /\ config' = GeneratedHeader
    /\ fst' = FillStart(template, selected)
    /\ UNCHANGED <<file, args, pc, selected, template, stdout, stderr, exitCode, text, pst>>

\* Lines 280-290: one profile of the application order is applied.
FillApplyProfile ==
    /\ fst.phase = "loop"
    /\ fst.profiles # <<>>
    /\ fst' = FillApply(fst)
    /\ UNCHANGED <<file, args, pc, selected, template, config, stdout, stderr, exitCode,
                   text, pst>>

\* Lines 292-296: the retained settings are written.
FillEmit ==
    /\ fst.phase = "loop"
    /\ fst.profiles = <<>>
    /\ config' = config \o EmitSettings(fst.settings, fst.settingIdx)
    /\ fst' = [fst EXCEPT !.phase = "done"]
    /\ UNCHANGED <<file, args, pc, selected, template, stdout, stderr, exitCode, text, pst>>

NextFill ==
    \/ FillBegin
    \/ FillApplyProfile
    \/ FillEmit

SpecFill == InitFill /\ [][NextFill]_vars

(***************************************************************************)
(* What the properties are stated with: the lines of a text and their      *)
(* kinds, and last-write-wins over a sequence of settings, each written    *)
(* down declaratively.                                                     *)
(***************************************************************************)
SetMin(S) == CHOOSE x \in S : \A y \in S : x <= y
SetMax(S) == CHOOSE x \in S : \A y \in S : x >= y

\* The pieces of t between its line terminators.
RECURSIVE SplitLines(_)
SplitLines(t) ==
    IF \A i \in 1..Len(t) : t[i] # "\n" THEN <<t>>
    ELSE LET n == SetMin({i \in 1..Len(t) : t[i] = "\n"})
         IN <<SubSeq(t, 1, n - 1)>> \o SplitLines(SubSeq(t, n + 1, Len(t)))

\* l without its leading and trailing whitespace.
Stripped(l) ==
    LET ns == {i \in 1..Len(l) : l[i] \notin SpaceChars}
    IN IF ns = {} THEN <<>> ELSE SubSeq(l, SetMin(ns), SetMax(ns))

\* The trimmed lines of the text, by 1-based file position.
FileLines(t) == [i \in 1..Len(SplitLines(t)) |-> Stripped(SplitLines(t)[i])]

IsBlankOrComment(l) == l = <<>> \/ l[1] = "#"

\* [name], name made of one or more letters, digits and underscores.
IsHeader(l) ==
    /\ Len(l) >= 3
    /\ l[1] = "["
    /\ l[Len(l)] = "]"
    /\ \A i \in 2..(Len(l) - 1) : l[i] \in WordChars

\* key=value, key made of word characters, value not empty.
IsSetting(l) ==
    \E e \in 2..(Len(l) - 1) : l[e] = "=" /\ \A i \in 1..(e - 1) : l[i] \in WordChars

Offending(l) == ~IsBlankOrComment(l) /\ ~IsHeader(l) /\ ~IsSetting(l)

OffendingLines(t) == {i \in DOMAIN FileLines(t) : Offending(FileLines(t)[i])}

\* The record the setting line at position i stands for: the profile of
\* the nearest header before it, the key before the first '=', the value
\* after it.
RecordOf(L, i) ==
    LET hs == {j \in 1..(i - 1) : IsHeader(L[j])}
        e == SetMin({x \in 1..Len(L[i]) : L[i][x] = "="})
    IN [profile |-> IF hs = {} THEN defaultProfileName
                    ELSE SubSeq(L[SetMax(hs)], 2, Len(L[SetMax(hs)]) - 1),
        setting |-> [key |-> SubSeq(L[i], 1, e - 1),
                     value |-> SubSeq(L[i], e + 1, Len(L[i]))]]

RECURSIVE ExpectedRecords(_, _)
ExpectedRecords(L, i) ==
    IF i > Len(L) THEN <<>>
    ELSE (IF IsSetting(L[i]) THEN <<RecordOf(L, i)>> ELSE <<>>) \o ExpectedRecords(L, i + 1)

\* The settings of profile p, in template order.
RECURSIVE SettingsOf(_, _)
SettingsOf(tpl, p) ==
    IF tpl = <<>> THEN <<>>
    ELSE (IF Head(tpl).profile = p THEN <<Head(tpl).setting>> ELSE <<>>)
         \o SettingsOf(Tail(tpl), p)

\* default, then the selected profiles left to right.
EffectiveOrder(sel) ==
    <<defaultProfileName>> \o (IF sel[1] = defaultProfileName THEN Tail(sel) ELSE sel)

\* Every profile of the order applied in full, one after the other.
RECURSIVE AppliedInOrder(_, _)
AppliedInOrder(tpl, order) ==
    IF order = <<>> THEN <<>>
    ELSE SettingsOf(tpl, Head(order)) \o AppliedInOrder(tpl, Tail(order))

\* The order with only the first occurrence of each profile kept.
RECURSIVE FirstOccurrences(_, _)
FirstOccurrences(order, seen) ==
    IF order = <<>> THEN <<>>
    ELSE (IF Head(order) \in seen THEN <<>> ELSE <<Head(order)>>)
         \o FirstOccurrences(Tail(order), seen \cup {Head(order)})

\* The entries of s that no later entry of the same key supersedes.
RECURSIVE KeepLast(_)
KeepLast(s) ==
    IF s = <<>> THEN <<>>
    ELSE (IF \E j \in 2..Len(s) : s[j].key = Head(s).key THEN <<>> ELSE <<Head(s)>>)
         \o KeepLast(Tail(s))

RECURSIVE Document(_)
Document(s) ==
    IF s = <<>> THEN <<>>
    ELSE Head(s).key \o <<"=">> \o Head(s).value \o <<"\n">> \o Document(Tail(s))

KeysOf(s) == {s[i].key : i \in 1..Len(s)}
Range(s) == {s[i] : i \in 1..Len(s)}

InsertCopy(s, i) == SubSeq(s, 1, i) \o <<s[i]>> \o SubSeq(s, i + 1, Len(s))
RemoveAt(s, i) == SubSeq(s, 1, i - 1) \o SubSeq(s, i + 1, Len(s))

DefaultMisplaced(names) == \E i \in 2..Len(names) : names[i] = defaultProfileName

(***************************************************************************)
(* Properties of fillConfig (SpecFill).                                    *)
(***************************************************************************)
\* C1: for every accepted selection, repeated profiles included, the
\* document fillConfig leaves is the last-write-wins merge over the
\* effective order (default, then the selected profiles left to right, each
\* applied in full): every key has the value of the last profile of that
\* order that sets it, at that setting's position.
C1_LastWriteWinsOverSelectionOrder ==
    fst.phase = "done" =>
        config = GeneratedHeader
                 \o Document(KeepLast(AppliedInOrder(template, EffectiveOrder(selected))))

\* C4: a selection that does not start with default resolves to the same
\* document as default followed by it, and the selection [default] resolves
\* to the default profile's settings, last write kept.
C4_DefaultImplicitlyFirst ==
    fst.phase = "done" =>
        /\ selected[1] # defaultProfileName =>
              config = fillConfig(template, <<defaultProfileName>> \o selected)
        /\ selected = <<defaultProfileName>> =>
              config = GeneratedHeader
                       \o Document(KeepLast(SettingsOf(template, defaultProfileName)))

C4_Witness ==
    /\ fst.phase = "done"
    /\ selected = <<batProfile>>
    /\ Len(template) = 2
    /\ template[1].profile = defaultProfileName
    /\ template[2].profile = batProfile
    /\ config = GeneratedHeader \o <<"k", "=", "2", "\n">>

\* C5: the document holds each key once, its keys are those set by default
\* or a selected profile, and its lines are the applied settings (each
\* distinct profile of the effective order, applied once, in order) that no
\* later applied setting of the same key supersedes, in applied order.
C5_ResolvedShape ==
    fst.phase = "done" =>
        LET E == KeepLast(fst.settings)
        IN /\ fst.settings
                 = AppliedInOrder(template, FirstOccurrences(EffectiveOrder(selected), {}))
           /\ config = GeneratedHeader \o Document(E)
           /\ \A i, j \in 1..Len(E) : E[i].key = E[j].key => i = j
           /\ KeysOf(E) = {template[i].setting.key :
                             i \in {n \in 1..Len(template) :
                                      template[n].profile
                                          \in {defaultProfileName} \cup Range(selected)}}

C5_Witness ==
    /\ fst.phase = "done"
    /\ Len(fst.settings) = 3
    /\ selected = <<batProfile>>
    /\ config = GeneratedHeader \o <<"j", "=", "2", "\n", "k", "=", "3", "\n">>

\* C9: a second copy of a selected profile put right after it changes
\* nothing, every template record is applied at most once, and a selected
\* profile with no record in the template contributes nothing.
C9_RepeatedAndAbsentProfiles ==
    fst.phase = "done" =>
        /\ \A i \in 1..Len(selected) :
              config = fillConfig(template, InsertCopy(selected, i))
        /\ Len(fst.settings) + Len(fst.templateCache) = Len(template)
        /\ \A i \in 1..Len(selected) :
              SettingsOf(template, selected[i]) = <<>> =>
                  IF Len(selected) = 1
                  THEN config = GeneratedHeader
                                \o Document(KeepLast(SettingsOf(template, defaultProfileName)))
                  ELSE config = fillConfig(template, RemoveAt(selected, i))

C9_Witness ==
    /\ fst.phase = "done"
    /\ selected = <<batProfile, batProfile>>
    /\ Len(template) = 2
    /\ Len(fst.settings) = 2
    /\ template[1].setting.key = template[2].setting.key

(***************************************************************************)
(* Properties of parseTemplate (SpecParse).                                *)
(***************************************************************************)
\* C6: when the text has an offending line (not blank, not a comment, not
\* a valid section header, not a valid setting), parseTemplate ends with an
\* error, no records, and the 1-based position of the first offending line,
\* blank and comment lines counted.
C6_MalformedIsFatal ==
    (pst.done /\ OffendingLines(text) # {}) =>
        /\ pst.err # "none"
        /\ pst.lines = <<>>
        /\ pst.errLine = SetMin(OffendingLines(text))

C6_Witness ==
    /\ pst.done
    /\ pst.err = "line"
    /\ pst.errLine = 3
    /\ Len(SplitLines(text)) >= 3
    /\ FileLines(text)[1] = <<>>
    /\ FileLines(text)[2] # <<>>
    /\ FileLines(text)[2][1] = "#"

\* C7: on a text with no offending line parseTemplate returns one record
\* per setting line, in file order, tagged with the name of the nearest
\* section header before it (default when there is none), its key the text
\* before the first '=' and its value the text after it.
C7_SectionTagging ==
    (pst.done /\ OffendingLines(text) = {}) =>
        /\ pst.err = "none"
        /\ pst.lines = ExpectedRecords(FileLines(text), 1)

C7_Witness ==
    /\ pst.done
    /\ pst.err = "none"
    /\ Len(pst.lines) = 2
    /\ pst.lines[1].profile = defaultProfileName
    /\ pst.lines[2].profile = <<"p">>
    /\ pst.lines[2].setting.value = <<"[", "p", "]">>

\* C10: every iteration of the read loop ends the loop or consumes input,
\* and a text whose last line has no terminator gives the records, the
\* error and the line number of the same text with the terminator added.
C10_EndOfInput ==
    /\ ~pst.done => (ParseStep(pst).done \/ Len(ParseStep(pst).rest) < Len(pst.rest))
    /\ (pst.done /\ text # <<>> /\ text[Len(text)] # "\n") =>
          LET r == ParseLoop(ParseInit(text \o <<"\n">>))
          IN /\ r.lines = pst.lines
             /\ r.err = pst.err
             /\ r.errLine = pst.errLine

C10_Witness ==
    /\ pst.done
    /\ text # <<>>
    /\ text[Len(text)] = "v"
    /\ Len(pst.lines) = 2
    /\ pst.lines[2].profile = <<"q">>

(***************************************************************************)
(* Properties of the program (Spec).                                       *)
(***************************************************************************)
\* C2: a non-empty list of names given to `use` is rejected by parseInput
\* (the run ends with a non-zero status and nothing on stdout) exactly when
\* default occurs at an index other than the first; otherwise it is
\* returned unchanged.
C2_DefaultPosition ==
    (pc \in {"parseTemplate", "fillConfig", "exited"} /\ Len(args) >= 2 /\ args[1] = cmdUse) =>
        IF DefaultMisplaced(Tail(args))
        THEN pc = "exited" /\ exitCode # 0 /\ stdout = <<>> /\ selected = <<>>
        ELSE selected = Tail(args)

C2_Witness ==
    /\ pc = "exited"
    /\ args = <<cmdUse, defaultProfileName, batProfile, defaultProfileName>>
    /\ exitCode = 1

UsageError(a) == Len(a) = 0 \/ a[1] \notin {cmdTemplate, cmdUse} \/ a = <<cmdUse>>
UseRun(a) == Len(a) >= 2 /\ a[1] = cmdUse

\* C3: stdout is written only by a run that exits with status zero, once,
\* with the complete document; a run with a usage error, a misplaced
\* default, a missing template or a malformed template exits non-zero with
\* nothing on stdout.
C3_AllOrNothing ==
    /\ stdout # <<>> =>
          /\ pc = "exited"
          /\ exitCode = 0
          /\ stdout = <<fillConfig(parseTemplate(file).lines, Tail(args)) \o <<"\n">>>>
    /\ (pc = "exited" /\ (\/ UsageError(args)
                          \/ (UseRun(args) /\ DefaultMisplaced(Tail(args)))
                          \/ (UseRun(args) /\ OffendingLines(file.text) # {})
                          \/ (UseRun(args) /\ ~file.exists))) =>
          (exitCode # 0 /\ stdout = <<>>)
    /\ (pc = "exited" /\ exitCode # 0) => stdout = <<>>

C3_Witness ==
    /\ pc = "exited"
    /\ args = <<cmdUse, batProfile>>
    /\ file.exists
    /\ file.text = BadText
    /\ exitCode = 1
    /\ stdout = <<>>

\* C8: no step of the tool changes a template file that exists; the
\* template command on an absent file creates it with the built-in
\* comment-only text and exits zero, on an existing file it exits non-zero;
\* every other command leaves the file as it is.
C8_TemplateNeverModified ==
    [][/\ file.exists => file' = file
       /\ (pc = "parseInput" /\ args = <<cmdTemplate>>) =>
             /\ pc' = "exited"
             /\ IF file.exists
                THEN exitCode' # 0 /\ file' = file
                ELSE /\ exitCode' = 0
                     /\ file' = [exists |-> TRUE, text |-> templateText]
                     /\ \A i \in DOMAIN FileLines(templateText) :
                           IsBlankOrComment(FileLines(templateText)[i])
       /\ (pc # "idle" /\ pc # "exited" /\ args # <<cmdTemplate>>) => file' = file]_vars

C8_Witness ==
    /\ pc = "exited"
    /\ args = <<cmdTemplate>>
    /\ file.exists
    /\ file.text = GoodText
    /\ exitCode = 1
====
